---- MODULE Spec2Model ----
(***************************************************************************)
(* A model of the resource-binding layer of violette-gl.                   *)
(*                                                                         *)
(* The repository holds two crates that implement the same idea:           *)
(*   "violette"      (src/src/*.rs)           bind / unbind on &self and   *)
(*                    ResourceExt::with_binding = bind; cb(); unbind       *)
(*   "violette-low"  (src/violette-low/src/*.rs)  BindGuard, which saves   *)
(*                    the previous identifier and restores it on drop;     *)
(*                    its framebuffer uses base/resource.rs, whose         *)
(*                    with_binding = bind; unbind; cb()                    *)
(* The driver is a record of binding points; every code path is modelled   *)
(* by the sequence of driver calls it issues, and Apply gives the calls    *)
(* their driver semantics.                                                 *)
(***************************************************************************)
EXTENDS Integers, Sequences, FiniteSets, TLC

VARIABLES
    crate,      \* which crate this behaviour exercises
    noUnbind,   \* cfg!(feature = "no-unbind"), fixed at build time
    bound,      \* driver: binding point -> identifier (0 = nothing bound)
    stack,      \* live binding scopes (guards / with_binding frames), innermost last
    unwinding,  \* a panic is propagating through the scopes of stack
    alive,      \* the resource handles that exist
    dropped,    \* history: the handles that have gone out of scope
    issued,     \* the driver calls issued by the most recent operation
    last,       \* what the most recent operation was and what it observed
    sizeof,     \* size_of::<T>() of the buffers' element type
    drv,        \* driver: buffer data stores, mapped buffers, error flag, alignment
    bufs,       \* per buffer handle: count, the elements uploaded, live mapping guard
    tex,        \* the fields of the texture handle: extents and has_mipmaps
    prog        \* programs and shaders: driver objects and the handles owning them

vars == <<crate, noUnbind, bound, stack, unwinding, alive, dropped, issued, last,
          sizeof, drv, bufs, tex, prog>>

bufvars == <<sizeof, drv, bufs, tex, prog>>

-----------------------------------------------------------------------------
(* Bounds *)

MaxDepth == 2   \* nesting depth of binding scopes

-----------------------------------------------------------------------------
(* Option<Id> *)

None == [some |-> FALSE, id |-> 0]
Some(x) == [some |-> TRUE, id |-> x]

-----------------------------------------------------------------------------
(* Identifier constructors *)

BufferId_new(id) == IF id = 0 THEN None ELSE Some(id)
TextureId_new(id) == IF id = 0 THEN None ELSE Some(id)
ProgramId_new(id) == IF id = 0 THEN None ELSE Some(id)
VaoId_new(id) == IF id = 0 THEN None ELSE Some(id)
FramebufferId_new(id) == IF id = 0 THEN None ELSE Some(id)

-----------------------------------------------------------------------------
(* Resource handles.  kind is the buffer kind, dim/samples the texture     *)
(* target; glref marks a handle held in a GlRef (ManuallyDrop).            *)

Handle(c, cl, k, d, s, i, g) ==
    [crate |-> c, class |-> cl, kind |-> k, dim |-> d, samples |-> s, id |-> i, glref |-> g]

NoHandle == Handle("-", "none", "-", "-", 0, 0, FALSE)

Crates == {"violette", "violette-low"}

Backbuffer(c) == Handle(c, "framebuffer", "-", "-", 0, 0, TRUE)

\* The handles of the binding-protocol behaviours: one resource of every type,
\* and a second of a type where nesting needs it.
BindingHandles ==
    { Handle("violette", "buffer", "ARRAY_BUFFER", "-", 0, 1, FALSE),
      Handle("violette", "buffer", "ARRAY_BUFFER", "-", 0, 2, FALSE),
      Handle("violette", "texture", "-", "D2", 1, 1, FALSE),
      Handle("violette", "program", "-", "-", 0, 1, FALSE),
      Handle("violette", "vao", "-", "-", 0, 1, FALSE),
      Handle("violette", "framebuffer", "-", "-", 0, 1, FALSE),
      Backbuffer("violette"),
      Handle("violette-low", "buffer", "ARRAY_BUFFER", "-", 0, 1, FALSE),
      Handle("violette-low", "buffer", "ARRAY_BUFFER", "-", 0, 2, FALSE),
      Handle("violette-low", "texture", "-", "D2", 1, 1, FALSE),
      Handle("violette-low", "texture", "-", "D2", 4, 2, FALSE),
      Handle("violette-low", "texture", "-", "D2Array", 4, 3, FALSE),
      Handle("violette-low", "program", "-", "-", 0, 1, FALSE),
      Handle("violette-low", "vao", "-", "-", 0, 1, FALSE),
      Handle("violette-low", "framebuffer", "-", "-", 0, 1, FALSE),
      Backbuffer("violette-low") }

\* The texture handles of the texture behaviours (crate violette): a plain 2D
\* texture, a multisampled 2D texture and a multisampled 2D array texture.
TextureHandles ==
    { Handle("violette", "texture", "-", "D2", 1, 1, FALSE),
      Handle("violette", "texture", "-", "D2", 4, 2, FALSE),
      Handle("violette", "texture", "-", "D2Array", 4, 3, FALSE) }

\* The handles of the framebuffer-lifecycle behaviours.
FramebufferHandles == {h \in BindingHandles : h.class = "framebuffer"}

\* Which binding protocol a handle's type is written against.
Proto(h) ==
    IF h.crate = "violette" THEN "scoped"
    ELSE IF h.class = "framebuffer" THEN "early"
    ELSE "guard"

-----------------------------------------------------------------------------
(* Texture targets *)

is_multisample(samples) == samples > 1

gl_target(dim, samples) ==
    CASE dim = "D1" -> "TEXTURE_1D"
      [] dim = "D1Array" -> "TEXTURE_1D_ARRAY"
      [] dim = "D2" /\ ~is_multisample(samples) -> "TEXTURE_2D"
      [] dim = "D2" /\ is_multisample(samples) -> "TEXTURE_2D_MULTISAMPLE"
      [] dim = "D2Array" /\ ~is_multisample(samples) -> "TEXTURE_2D_ARRAY"
      [] dim = "D2Array" /\ is_multisample(samples) -> "TEXTURE_2D_MULTISAMPLE_ARRAY"
      [] dim = "D3" -> "TEXTURE_3D"

Texture_binding_const(dim, samples) ==
    CASE dim = "D1" -> "TEXTURE_BINDING_1D"
      [] dim = "D1Array" -> "TEXTURE_BINDING_1D_ARRAY"
      [] dim = "D2" /\ ~is_multisample(samples) -> "TEXTURE_BINDING_2D"
      [] dim = "D2" /\ is_multisample(samples) -> "TEXTURE_BINDING_2D_MULTISAMPLE_ARRAY"
      [] dim = "D2Array" /\ ~is_multisample(samples) -> "TEXTURE_BINDING_2D_ARRAY"
      [] dim = "D2Array" /\ is_multisample(samples) -> "TEXTURE_BINDING_2D_MULTISAMPLE_ARRAY"
      [] dim = "D3" -> "TEXTURE_BINDING_3D"

Buffer_binding_const(kind) ==
    CASE kind = "ARRAY_BUFFER" -> "ARRAY_BUFFER_BINDING"
      [] kind = "ELEMENT_ARRAY_BUFFER" -> "ELEMENT_ARRAY_BUFFER_BINDING"
      [] kind = "UNIFORM_BUFFER" -> "UNIFORM_BUFFER_BINDING"

-----------------------------------------------------------------------------
(* The driver *)

Points ==
    { "ARRAY_BUFFER", "ELEMENT_ARRAY_BUFFER", "UNIFORM_BUFFER",
      "TEXTURE_2D", "TEXTURE_2D_MULTISAMPLE", "TEXTURE_2D_MULTISAMPLE_ARRAY",
      "PROGRAM", "FRAMEBUFFER", "VERTEX_ARRAY" }

\* The binding point a glGetIntegerv parameter name reads.
PointOfPname(pname) ==
    CASE pname = "ARRAY_BUFFER_BINDING" -> "ARRAY_BUFFER"
      [] pname = "ELEMENT_ARRAY_BUFFER_BINDING" -> "ELEMENT_ARRAY_BUFFER"
      [] pname = "UNIFORM_BUFFER_BINDING" -> "UNIFORM_BUFFER"
      [] pname = "TEXTURE_BINDING_2D" -> "TEXTURE_2D"
      [] pname = "TEXTURE_BINDING_2D_MULTISAMPLE" -> "TEXTURE_2D_MULTISAMPLE"
      [] pname = "TEXTURE_BINDING_2D_MULTISAMPLE_ARRAY" -> "TEXTURE_2D_MULTISAMPLE_ARRAY"
      [] pname = "CURRENT_PROGRAM" -> "PROGRAM"
      [] pname = "FRAMEBUFFER_BINDING" -> "FRAMEBUFFER"
      [] pname = "VERTEX_ARRAY_BINDING" -> "VERTEX_ARRAY"

GetIntegerv(b, pname) == b[PointOfPname(pname)]

\* The binding point a handle's bind call writes.
Point(h) ==
    CASE h.class = "buffer" -> h.kind
      [] h.class = "texture" -> gl_target(h.dim, h.samples)
      [] h.class = "program" -> "PROGRAM"
      [] h.class = "framebuffer" -> "FRAMEBUFFER"
      [] h.class = "vao" -> "VERTEX_ARRAY"

\* A texture name belongs to the target it was first bound to.
TextureTargetOfName(c, id) ==
    LET owners == {h \in BindingHandles \cup TextureHandles : h.crate = c /\ h.class = "texture" /\ h.id = id}
    IN  IF owners = {} THEN "-" ELSE Point(CHOOSE h \in owners : TRUE)

Call(fn, point, id) == [fn |-> fn, point |-> point, id |-> id]

\* Driver semantics of one call on the binding points.
ApplyCall(c, b, call) ==
    CASE call.fn \in {"BindBuffer", "UseProgram", "BindFramebuffer", "BindVertexArray"} ->
            [b EXCEPT ![call.point] = call.id]
      [] call.fn = "BindTexture" ->
            \* GL_INVALID_OPERATION: the name was created with another target
            IF call.id # 0 /\ TextureTargetOfName(c, call.id) # call.point
            THEN b
            ELSE [b EXCEPT ![call.point] = call.id]
      [] call.fn = "DeleteFramebuffers" ->
            \* deleting the bound framebuffer reverts the binding to 0; 0 is ignored
            IF call.id # 0 /\ b["FRAMEBUFFER"] = call.id
            THEN [b EXCEPT !["FRAMEBUFFER"] = 0]
            ELSE b
      [] OTHER -> b

RECURSIVE Apply(_, _, _)
Apply(c, b, calls) ==
    IF calls = <<>> THEN b
    ELSE Apply(c, ApplyCall(c, b, Head(calls)), Tail(calls))

-----------------------------------------------------------------------------
(* crate violette: Resource::current / bind / unbind of each resource type  *)

Buffer_current(kind, b) == BufferId_new(GetIntegerv(b, Buffer_binding_const(kind)))
Buffer_bind(h) == <<Call("BindBuffer", h.kind, h.id)>>
Buffer_unbind(h) == <<Call("BindBuffer", h.kind, 0)>>

Texture_current(b) == None
Texture_bind(h) == <<Call("BindTexture", gl_target(h.dim, h.samples), h.id)>>
Texture_unbind(h) == <<Call("BindTexture", gl_target(h.dim, h.samples), 0)>>

Program_current(b) == ProgramId_new(GetIntegerv(b, "CURRENT_PROGRAM"))
Program_bind(h) == <<Call("UseProgram", "PROGRAM", h.id)>>
Program_unbind(h) == <<Call("UseProgram", "PROGRAM", 0)>>

Framebuffer_current(b) == Some(GetIntegerv(b, "FRAMEBUFFER_BINDING"))
Framebuffer_bind(h) == <<Call("BindFramebuffer", "FRAMEBUFFER", h.id)>>
Framebuffer_unbind(h) ==
    IF h.id = 0 THEN <<>> ELSE <<Call("BindFramebuffer", "FRAMEBUFFER", 0)>>

VertexArray_current(b) == VaoId_new(GetIntegerv(b, "VERTEX_ARRAY_BINDING"))
VertexArray_bind(h) == <<Call("BindVertexArray", "VERTEX_ARRAY", h.id)>>
VertexArray_unbind(h) == <<Call("BindVertexArray", "VERTEX_ARRAY", 0)>>

-----------------------------------------------------------------------------
(* crate violette-low: Resource::current / make_binding, Binding::unbind    *)
(* Textures are constructed with unit = None, so make_binding issues no     *)
(* glActiveTexture here.                                                    *)

LowBuffer_current(kind, b) == BufferId_new(GetIntegerv(b, Buffer_binding_const(kind)))
LowBuffer_make_binding(h) == <<Call("BindBuffer", h.kind, h.id)>>
BoundBuffer_unbind(h, previous) ==
    <<Call("BindBuffer", h.kind, IF previous.some THEN previous.id ELSE 0)>>

LowTexture_current(dim, samples, b) ==
    TextureId_new(GetIntegerv(b, Texture_binding_const(dim, samples)))
LowTexture_make_binding(h) == <<Call("BindTexture", gl_target(h.dim, h.samples), h.id)>>
BoundTexture_unbind(h, previous) ==
    <<Call("BindTexture", gl_target(h.dim, h.samples), IF previous.some THEN previous.id ELSE 0)>>

LowProgram_current(b) == ProgramId_new(GetIntegerv(b, "CURRENT_PROGRAM"))
LowProgram_make_binding(h) == <<Call("UseProgram", "PROGRAM", h.id)>>
ActiveProgram_unbind(h, previous) ==
    <<Call("UseProgram", "PROGRAM", IF previous.some THEN previous.id ELSE 0)>>

LowVertexArray_current(b) == VaoId_new(GetIntegerv(b, "VERTEX_ARRAY_BINDING"))
LowVertexArray_make_binding(h) == <<Call("BindVertexArray", "VERTEX_ARRAY", h.id)>>
BoundVao_unbind(h, previous) ==
    <<Call("BindVertexArray", "VERTEX_ARRAY", IF previous.some THEN previous.id ELSE 0)>>

LowFramebuffer_current(b) == Some(GetIntegerv(b, "FRAMEBUFFER_BINDING"))
LowFramebuffer_bind(h) == <<Call("BindFramebuffer", "FRAMEBUFFER", h.id)>>
LowFramebuffer_unbind(h) ==
    IF h.id = 0 THEN <<>> ELSE <<Call("BindFramebuffer", "FRAMEBUFFER", 0)>>

-----------------------------------------------------------------------------
(* Trait dispatch: the implementation a call on handle h resolves to        *)

Current(h, b) ==
    IF h.crate = "violette"
    THEN CASE h.class = "buffer" -> Buffer_current(h.kind, b)
           [] h.class = "texture" -> Texture_current(b)
           [] h.class = "program" -> Program_current(b)
           [] h.class = "framebuffer" -> Framebuffer_current(b)
           [] h.class = "vao" -> VertexArray_current(b)
    ELSE CASE h.class = "buffer" -> LowBuffer_current(h.kind, b)
           [] h.class = "texture" -> LowTexture_current(h.dim, h.samples, b)
           [] h.class = "program" -> LowProgram_current(b)
           [] h.class = "framebuffer" -> LowFramebuffer_current(b)
           [] h.class = "vao" -> LowVertexArray_current(b)

\* Resource::bind (violette, and the violette-low framebuffer) / make_binding
BindCalls(h) ==
    IF h.crate = "violette"
    THEN CASE h.class = "buffer" -> Buffer_bind(h)
           [] h.class = "texture" -> Texture_bind(h)
           [] h.class = "program" -> Program_bind(h)
           [] h.class = "framebuffer" -> Framebuffer_bind(h)
           [] h.class = "vao" -> VertexArray_bind(h)
    ELSE CASE h.class = "buffer" -> LowBuffer_make_binding(h)
           [] h.class = "texture" -> LowTexture_make_binding(h)
           [] h.class = "program" -> LowProgram_make_binding(h)
           [] h.class = "framebuffer" -> LowFramebuffer_bind(h)
           [] h.class = "vao" -> LowVertexArray_make_binding(h)

\* Resource::unbind(&self) of the types that have it
UnbindCalls(h) ==
    IF h.crate = "violette"
    THEN CASE h.class = "buffer" -> Buffer_unbind(h)
           [] h.class = "texture" -> Texture_unbind(h)
           [] h.class = "program" -> Program_unbind(h)
           [] h.class = "framebuffer" -> Framebuffer_unbind(h)
           [] h.class = "vao" -> VertexArray_unbind(h)
    ELSE LowFramebuffer_unbind(h)

\* Binding::unbind(&mut self, previous) of the guarded types
BindingUnbindCalls(h, previous) ==
    CASE h.class = "buffer" -> BoundBuffer_unbind(h, previous)
      [] h.class = "texture" -> BoundTexture_unbind(h, previous)
      [] h.class = "program" -> ActiveProgram_unbind(h, previous)
      [] h.class = "vao" -> BoundVao_unbind(h, previous)

-----------------------------------------------------------------------------
(* The three binding protocols, as the driver calls of their entry and exit *)

\* BindGuard::drop
BindGuard_drop(f, nu) ==
    IF ~nu THEN BindingUnbindCalls(f.h, f.previous) ELSE <<>>

\* violette ResourceExt::with_binding: bind(); cb(); unbind(); ret
Scoped_enter(h, nu) == BindCalls(h)
Scoped_return(h, nu) == IF ~nu THEN UnbindCalls(h) ELSE <<>>

\* violette-low ResourceExt::with_binding: bind(); unbind(); cb()
Early_enter(h, nu) == BindCalls(h) \o (IF ~nu THEN UnbindCalls(h) ELSE <<>>)

\* Calls issued when the scope f is left; how is "return", "error" or "panic".
\* Only a BindGuard has drop glue, so only it acts while unwinding.
ExitCalls(f, how, nu) ==
    CASE Proto(f.h) = "guard" -> BindGuard_drop(f, nu)
      [] Proto(f.h) = "scoped" -> IF how = "panic" THEN <<>> ELSE Scoped_return(f.h, nu)
      [] Proto(f.h) = "early" -> <<>>

\* Drop for Framebuffer
Framebuffer_drop(h) == <<Call("DeleteFramebuffers", "FRAMEBUFFER", h.id)>>

\* A GlRef that would run the destructor of the value it holds.
GlRef_drop_running_destructor(h) == Framebuffer_drop(h)

\* A GlRef holds its value in a ManuallyDrop: dropping it runs no destructor.
GlRef_drop(h) == <<>>

HandleDrop(h) == IF h.glref THEN GlRef_drop(h) ELSE Framebuffer_drop(h)

-----------------------------------------------------------------------------
(* State *)

Frame(h, previous, pre) == [h |-> h, previous |-> previous, pre |-> pre]

Top == stack[Len(stack)]
Pop == SubSeq(stack, 1, Len(stack) - 1)
InScope(h) == \E i \in 1..Len(stack) : stack[i].h = h

Last(op, h, pre, how, seen, res) ==
    [op |-> op, h |-> h, pre |-> pre, how |-> how, seen |-> seen, res |-> res]

\* A clean context in which the handles hs have been constructed.
Start(cs, hs) ==
    /\ crate \in cs
    /\ noUnbind \in BOOLEAN
    /\ bound = [p \in Points |-> 0]
    /\ stack = <<>>
    /\ unwinding = FALSE
    /\ alive = {h \in hs : h.crate = crate}
    /\ dropped = {}
    /\ issued = <<>>
    /\ last = Last("init", NoHandle, 0, "-", 0, None)

\* No buffer holds data: the buffer part of the state plays no role.
NoBuffers ==
    /\ sizeof = 1
    /\ drv = [store |-> <<>>, mapped |-> {}, err |-> FALSE, align |-> 1]
    /\ bufs = <<>>
    /\ tex = <<>>
    /\ prog = <<>>

Fixed == UNCHANGED <<crate, noUnbind, bufvars>>

-----------------------------------------------------------------------------
(* Operations *)

\* Resource::bind(&self)
Bind(h) ==
    /\ ~unwinding
    /\ h \in alive
    /\ Proto(h) \in {"scoped", "early"}
    /\ issued' = BindCalls(h)
    /\ bound' = Apply(crate, bound, issued')
    /\ last' = Last("bind", h, 0, "-", 0, None)
    /\ UNCHANGED <<stack, unwinding, alive>>
    /\ UNCHANGED dropped
    /\ Fixed

\* Resource::unbind(&self)
Unbind(h) ==
    /\ ~unwinding
    /\ h \in alive
    /\ Proto(h) \in {"scoped", "early"}
    /\ issued' = UnbindCalls(h)
    /\ bound' = Apply(crate, bound, issued')
    /\ last' = Last("unbind", h, bound[Point(h)], "-", 0, None)
    /\ UNCHANGED <<stack, unwinding, alive>>
    /\ UNCHANGED dropped
    /\ Fixed

\* BindableExt::bind (and the entry of BindableExt::with_binding): the guard
\* borrows the resource mutably, so a resource has at most one guard.
GuardBind(h) ==
    /\ ~unwinding
    /\ h \in alive
    /\ Proto(h) = "guard"
    /\ ~InScope(h)
    /\ Len(stack) < MaxDepth
    /\ issued' = BindCalls(h)
    /\ bound' = Apply(crate, bound, issued')
    /\ stack' = Append(stack, Frame(h, Current(h, bound), bound[Point(h)]))
    /\ last' = Last("bind", h, 0, "-", 0, None)
    /\ UNCHANGED <<unwinding, alive>>
    /\ UNCHANGED dropped
    /\ Fixed

\* ResourceExt::with_binding up to the call of cb (violette)
WithBindingEnter(h) ==
    /\ ~unwinding
    /\ h \in alive
    /\ Proto(h) = "scoped"
    /\ Len(stack) < MaxDepth
    /\ issued' = Scoped_enter(h, noUnbind)
    /\ bound' = Apply(crate, bound, issued')
    /\ stack' = Append(stack, Frame(h, None, bound[Point(h)]))
    /\ last' = Last("bind", h, 0, "-", 0, None)
    /\ UNCHANGED <<unwinding, alive>>
    /\ UNCHANGED dropped
    /\ Fixed

\* ResourceExt::with_binding up to the call of cb (violette-low framebuffer)
WithBindingEarly(h) ==
    /\ ~unwinding
    /\ h \in alive
    /\ Proto(h) = "early"
    /\ Len(stack) < MaxDepth
    /\ issued' = Early_enter(h, noUnbind)
    /\ bound' = Apply(crate, bound, issued')
    /\ stack' = Append(stack, Frame(h, None, bound[Point(h)]))
    /\ last' = Last("enter", h, 0, "-", 0, None)
    /\ UNCHANGED <<unwinding, alive>>
    /\ UNCHANGED dropped
    /\ Fixed

\* A driver call made by the body of the innermost scope on its resource's
\* binding point (glClear, glCheckFramebufferStatus, glBufferData, ...).
CallInScope ==
    /\ ~unwinding
    /\ stack # <<>>
    /\ issued' = <<Call("Operate", Point(Top.h), 0)>>
    /\ last' = Last("call", Top.h, 0, "-", bound[Point(Top.h)], None)
    /\ UNCHANGED <<bound, stack, unwinding, alive>>
    /\ UNCHANGED dropped
    /\ Fixed

\* The body of the innermost scope returns (a value or an Err): the rest of
\* with_binding runs, or the guard is dropped.
ScopeReturn(how) ==
    /\ ~unwinding
    /\ stack # <<>>
    /\ issued' = ExitCalls(Top, how, noUnbind)
    /\ bound' = Apply(crate, bound, issued')
    /\ stack' = Pop
    /\ last' = Last("exit", Top.h, Top.pre, how, 0, None)
    /\ UNCHANGED <<unwinding, alive>>
    /\ UNCHANGED dropped
    /\ Fixed

\* The body of the innermost scope panics, and the panic leaves that scope.
ScopePanic ==
    /\ ~unwinding
    /\ stack # <<>>
    /\ issued' = ExitCalls(Top, "panic", noUnbind)
    /\ bound' = Apply(crate, bound, issued')
    /\ stack' = Pop
    /\ unwinding' = (Pop # <<>>)
    /\ last' = Last("exit", Top.h, Top.pre, "panic", 0, None)
    /\ UNCHANGED alive
    /\ UNCHANGED dropped
    /\ Fixed

\* The panic leaves the next enclosing scope.
Unwind ==
    /\ unwinding
    /\ issued' = ExitCalls(Top, "panic", noUnbind)
    /\ bound' = Apply(crate, bound, issued')
    /\ stack' = Pop
    /\ unwinding' = (Pop # <<>>)
    /\ last' = Last("exit", Top.h, Top.pre, "panic", 0, None)
    /\ UNCHANGED alive
    /\ UNCHANGED dropped
    /\ Fixed

\* Resource::current
QueryCurrent(h) ==
    /\ ~unwinding
    /\ h \in alive
    /\ issued' = <<>>
    /\ last' = Last("current", h, 0, "-", 0, Current(h, bound))
    /\ UNCHANGED <<bound, stack, unwinding, alive>>
    /\ UNCHANGED dropped
    /\ Fixed

\* Framebuffer::new; raw is the name glGenFramebuffers hands out (0 when the
\* driver could not allocate one, and then unwrap() panics).
Framebuffer_new(h, raw) ==
    /\ ~unwinding
    /\ h.crate = crate /\ h \notin alive
    /\ ~h.glref
    /\ raw \in {0, h.id}
    /\ issued' = <<Call("GenFramebuffers", "FRAMEBUFFER", raw)>>
    /\ alive' = IF FramebufferId_new(raw).some THEN alive \cup {h} ELSE alive
    /\ unwinding' = (~FramebufferId_new(raw).some /\ stack # <<>>)
    /\ last' = Last("new", h, 0, "-", 0, FramebufferId_new(raw))
    /\ UNCHANGED <<bound, stack>>
    /\ UNCHANGED dropped
    /\ Fixed

\* Framebuffer::backbuffer
Framebuffer_backbuffer(h) ==
    /\ ~unwinding
    /\ h.crate = crate /\ h \notin alive
    /\ h.glref
    /\ issued' = <<>>
    /\ alive' = alive \cup {h}
    /\ last' = Last("new", h, 0, "-", 0, Some(0))
    /\ UNCHANGED <<bound, stack, unwinding>>
    /\ UNCHANGED dropped
    /\ Fixed

\* A framebuffer handle (or the GlRef holding one) goes out of scope.
DropFramebuffer(h) ==
    /\ ~unwinding
    /\ h \in alive
    /\ h.class = "framebuffer"
    /\ ~InScope(h)
    /\ issued' = HandleDrop(h)
    /\ bound' = Apply(crate, bound, issued')
    /\ alive' = alive \ {h}
    /\ dropped' = dropped \cup {h}
    /\ last' = Last("drop", h, 0, "-", 0, None)
    /\ UNCHANGED <<stack, unwinding>>
    /\ UNCHANGED <<crate, noUnbind, bufvars>>

\* Binding protocol of crate violette over a fixed set of constructed resources.
Init == Start({"violette"}, BindingHandles) /\ NoBuffers

Next ==
    \/ \E h \in BindingHandles : Bind(h)
    \/ \E h \in BindingHandles : Unbind(h)
    \/ \E h \in BindingHandles : WithBindingEnter(h)
    \/ CallInScope
    \/ \E how \in {"return", "error"} : ScopeReturn(how)
    \/ ScopePanic
    \/ Unwind

Spec == Init /\ [][Next]_vars

\* Binding protocol of crate violette-low over a fixed set of constructed resources.
InitLow == Start({"violette-low"}, BindingHandles) /\ NoBuffers

NextLow ==
    \/ \E h \in BindingHandles : Bind(h)
    \/ \E h \in BindingHandles : Unbind(h)
    \/ \E h \in BindingHandles : GuardBind(h)
    \/ \E h \in BindingHandles : WithBindingEarly(h)
    \/ CallInScope
    \/ \E how \in {"return", "error"} : ScopeReturn(how)
    \/ ScopePanic
    \/ Unwind

SpecLow == InitLow /\ [][NextLow]_vars

\* Framebuffer lifecycle (both crates): a clean context in which framebuffer
\* handles are created, bound, queried, used and dropped.
InitFb == Start(Crates, {}) /\ NoBuffers

NextFb ==
    \/ \E h \in FramebufferHandles, raw \in 0..1 : Framebuffer_new(h, raw)
    \/ \E h \in FramebufferHandles : Framebuffer_backbuffer(h)
    \/ \E h \in FramebufferHandles : DropFramebuffer(h)
    \/ \E h \in FramebufferHandles : Bind(h)
    \/ \E h \in FramebufferHandles : Unbind(h)
    \/ \E h \in FramebufferHandles : WithBindingEnter(h)
    \/ \E h \in FramebufferHandles : WithBindingEarly(h)
    \/ CallInScope
    \/ \E how \in {"return", "error"} : ScopeReturn(how)
    \/ ScopePanic
    \/ Unwind
    \/ \E h \in FramebufferHandles : QueryCurrent(h)

SpecFb == InitFb /\ [][NextFb]_vars

-----------------------------------------------------------------------------
(* Buffer data (crate violette): the driver's data stores and mappings *)

MaxLen == 2     \* elements uploaded by one set

\* size_of::<T>() of the element types, and the values the driver may report
\* for GL_UNIFORM_BUFFER_OFFSET_ALIGNMENT
SizeOfs == {1, 2, 3}
Aligns == {2, 4}

\* A plain-data element is the sequence of its bytes; all bytes are non-zero,
\* so that padding can be told from data.
Elem(k, sz) == [i \in 1..sz |-> 10 * k + i]
Elems(sz) == {Elem(k, sz) : k \in 1..2}
Datas(sz) == UNION {[1..n -> Elems(sz)] : n \in 0..MaxLen}

BufferHandles ==
    { Handle("violette", "buffer", "ARRAY_BUFFER", "-", 0, 1, FALSE),
      Handle("violette", "buffer", "UNIFORM_BUFFER", "-", 0, 3, FALSE) }

BufferIds == {h.id : h \in BufferHandles}

\* bytemuck::bytes_of, bytemuck::cast_slice::<T, u8>
bytes_of(x) == x

RECURSIVE cast_slice_to_bytes(_)
cast_slice_to_bytes(data) ==
    IF data = <<>> THEN <<>>
    ELSE bytes_of(Head(data)) \o cast_slice_to_bytes(Tail(data))

\* bytemuck::cast_slice::<u8, T>, defined when Len(bytes) % sz = 0
RECURSIVE cast_slice_from_bytes(_, _)
cast_slice_from_bytes(bytes, sz) ==
    IF Len(bytes) < sz THEN <<>>
    ELSE <<SubSeq(bytes, 1, sz)>>
            \o cast_slice_from_bytes(SubSeq(bytes, sz + 1, Len(bytes)), sz)

next_multiple(x, of) ==
    LET rem == x % of
        offset == of - rem
    IN  x + offset

Zeros(n) == [i \in 1..n |-> 0]

\* The bytes Buffer::set hands to glBufferData
RECURSIVE Padded(_, _)
Padded(data, alignment) ==
    IF data = <<>> THEN <<>>
    ELSE bytes_of(Head(data)) \o Zeros(alignment - Len(bytes_of(Head(data))))
            \o Padded(Tail(data), alignment)

Buffer_set_bytes(kind, sz, data, gl_alignment) ==
    IF kind = "UNIFORM_BUFFER"
    THEN Padded(data, next_multiple(sz, gl_alignment))
    ELSE cast_slice_to_bytes(data)

\* std::ops::Bound and the ranges handed to slice
Included(i) == [b |-> "Included", i |-> i]
Excluded(i) == [b |-> "Excluded", i |-> i]
Unbounded == [b |-> "Unbounded", i |-> 0]
Range(s, e) == [start |-> s, end |-> e]

byte_slice(count, sz, range, gl_alignment) ==
    LET alignment == next_multiple(sz, gl_alignment)
        start == (CASE range.start.b = "Included" -> range.start.i
                    [] range.start.b = "Excluded" -> range.start.i + 1
                    [] range.start.b = "Unbounded" -> 0) * alignment
        end == (CASE range.end.b = "Included" -> range.end.i + 1
                  [] range.end.b = "Excluded" -> range.end.i
                  [] range.end.b = "Unbounded" -> count * sz) * alignment
    IN  [alignment |-> alignment, start |-> start, end |-> end]

Buffer_slice(count, sz, range, gl_alignment) ==
    LET r == byte_slice(count, sz, range, gl_alignment)
    IN  [alignment |-> r.alignment, offset |-> r.start, size |-> r.end - r.start]

Buffer_at(count, sz, ix, gl_alignment) ==
    Buffer_slice(count, sz, Range(Included(ix), Included(ix)), gl_alignment)

Buffer_len(b) == b.count


\* Driver calls on buffer data
BCall(fn, point, offset, size, bytes) ==
    [fn |-> fn, point |-> point, id |-> 0, offset |-> offset, size |-> size,
     bytes |-> bytes]

GetError == Call("GetError", "-", 0)

DriverState(b, dr) ==
    [bound |-> b, store |-> dr.store, mapped |-> dr.mapped, err |-> dr.err]

\* glMapBufferRange succeeds on a bound, unmapped buffer for a non-empty range
\* inside its data store; otherwise it flags an error and returns NULL.
MapAccepted(d, call) ==
    LET id == d.bound[call.point] IN
    /\ id # 0
    /\ id \notin d.mapped
    /\ call.offset >= 0 /\ call.size > 0
    /\ call.offset + call.size <= Len(d.store[id])

\* Driver semantics of one call on the whole driver state.
DrvCall(c, d, call) ==
    CASE call.fn = "BufferData" ->
            LET id == d.bound[call.point] IN
            IF id = 0 THEN [d EXCEPT !.err = TRUE]
            ELSE [d EXCEPT !.store[id] = call.bytes, !.mapped = @ \ {id}]
      [] call.fn = "MapBufferRange" ->
            IF MapAccepted(d, call)
            THEN [d EXCEPT !.mapped = @ \cup {d.bound[call.point]}]
            ELSE [d EXCEPT !.err = TRUE]
      [] call.fn = "UnmapBuffer" ->
            LET id == d.bound[call.point] IN
            IF id # 0 /\ id \in d.mapped
            THEN [d EXCEPT !.mapped = @ \ {id}]
            ELSE [d EXCEPT !.err = TRUE]
      [] call.fn = "GetError" -> [d EXCEPT !.err = FALSE]
      [] OTHER -> [d EXCEPT !.bound = ApplyCall(c, d.bound, call)]

RECURSIVE DrvApply(_, _, _)
DrvApply(c, d, calls) ==
    IF calls = <<>> THEN d
    ELSE DrvApply(c, DrvCall(c, d, Head(calls)), Tail(calls))

\* Drop for MappedBufferData
MappedBufferData_drop(h) ==
    <<BCall("UnmapBuffer", h.kind, 0, 0, <<>>), Call("BindBuffer", h.kind, 0)>>

\* The driver part of the variables after the driver has reached state d
Driven(d) ==
    /\ bound' = d.bound
    /\ drv' = [drv EXCEPT !.store = d.store, !.mapped = d.mapped, !.err = d.err]

\* Buffer::set
Buffer_set(h, data) ==
    /\ ~unwinding /\ stack = <<>>
    /\ h \in alive /\ h.class = "buffer" /\ h.crate = "violette"
    /\ ~bufs[h].guard
    /\ LET bytes == Buffer_set_bytes(h.kind, sizeof, data, drv.align)
           d0 == DriverState(bound, drv)
           upload == Buffer_bind(h)
                        \o <<BCall("BufferData", h.kind, 0, Len(bytes), bytes)>>
           d1 == DrvApply(crate, d0, upload)
           failed == d1.err
           d2 == DrvCall(crate, d1, GetError)
           rest == IF failed THEN <<>> ELSE Buffer_unbind(h)
       IN  /\ issued' = upload \o <<GetError>> \o rest
           /\ Driven(DrvApply(crate, d2, rest))
           /\ bufs' = [bufs EXCEPT ![h].count = Len(data), ![h].data = data]
           /\ last' = [op |-> "set", h |-> h, n |-> Len(data),
                       clean |-> ~d0.err,
                       result |-> IF failed THEN "err" ELSE "ok"]
    /\ UNCHANGED <<crate, noUnbind, stack, unwinding, alive, dropped, sizeof, tex, prog>>

\* Buffer::slice(range) followed by BufferSlice::get_all(MAP_READ).  When the
\* driver refuses the mapping, slice::from_raw_parts is handed a null pointer:
\* ub says whether the process then goes on or ends.
BufferSlice_get_all(h, range, ub) ==
    /\ ~unwinding /\ stack = <<>>
    /\ h \in alive /\ h.class = "buffer" /\ h.crate = "violette"
    /\ ~bufs[h].guard
    /\ LET sl == Buffer_slice(Buffer_len(bufs[h]), sizeof, range, drv.align)
           map == BCall("MapBufferRange", h.kind, sl.offset, sl.size, <<>>)
           d0 == DriverState(bound, drv)
           d1 == DrvApply(crate, d0, Scoped_enter(h, noUnbind))
           accepted == MapAccepted(d1, map)
           d2 == DrvCall(crate, d1, map)
           castOk == sl.size % sizeof = 0
           d3 == DrvApply(crate, d2, Scoped_return(h, noUnbind))
           failed == d3.err
           d4 == DrvCall(crate, d3, GetError)
           d5 == DrvApply(crate, d4, MappedBufferData_drop(h))
           outcome == IF ~accepted /\ ub = "abort" THEN "abort"
                      ELSE IF ~castOk THEN "panic"
                      ELSE IF failed THEN "err"
                      ELSE "ok"
           inside == Scoped_enter(h, noUnbind) \o <<map>>
           checked == inside \o Scoped_return(h, noUnbind) \o <<GetError>>
       IN  /\ accepted => ub = "continue"
           /\ issued' = CASE outcome \in {"abort", "panic"} -> inside
                          [] outcome = "err" -> checked \o MappedBufferData_drop(h)
                          [] outcome = "ok" -> checked
           /\ Driven(CASE outcome \in {"abort", "panic"} -> d2
                       [] outcome = "err" -> d5
                       [] outcome = "ok" -> d4)
           /\ bufs' = [bufs EXCEPT ![h].guard = (outcome = "ok")]
           /\ alive' = IF outcome = "abort" THEN {} ELSE alive
           /\ last' = [op |-> "get_all", h |-> h, range |-> range,
                       offset |-> sl.offset, size |-> sl.size,
                       clean |-> ~d0.err /\ h.id \notin d0.mapped,
                       result |-> outcome,
                       data |-> IF outcome = "ok"
                                THEN cast_slice_from_bytes(
                                        SubSeq(d0.store[h.id], sl.offset + 1,
                                               sl.offset + sl.size), sizeof)
                                ELSE <<>>]
    /\ UNCHANGED <<crate, noUnbind, stack, unwinding, dropped, sizeof, tex, prog>>

\* The MappedBufferData returned by get_all goes out of scope.
DropMapped(h) ==
    /\ ~unwinding
    /\ h \in alive /\ h.class = "buffer"
    /\ bufs[h].guard
    /\ issued' = MappedBufferData_drop(h)
    /\ Driven(DrvApply(crate, DriverState(bound, drv), issued'))
    /\ bufs' = [bufs EXCEPT ![h].guard = FALSE]
    /\ last' = [op |-> "unmap", h |-> h]
    /\ UNCHANGED <<crate, noUnbind, stack, unwinding, alive, dropped, sizeof, tex, prog>>

\* The ranges handed to slice: a..b, at(i) and the unbounded range
MaxIx == MaxLen + 1

Ranges ==
    {Range(Included(a), Excluded(b)) : a \in 0..MaxIx, b \in 0..MaxIx}
        \cup {Range(Included(i), Included(i)) : i \in 0..MaxIx}
        \cup {Range(Unbounded, Unbounded)}

WellFormed(range) ==
    range.start.b = "Included" /\ range.end.b = "Excluded"
        => range.start.i <= range.end.i

\* Buffer data in crate violette: a freshly constructed buffer of either kind
\* is filled, mapped for reading, bound and unbound.
InitBuf ==
    /\ \E h \in BufferHandles : Start({"violette"}, {h})
    /\ sizeof \in SizeOfs
    /\ \E a \in Aligns :
          drv = [store |-> [i \in BufferIds |-> <<>>], mapped |-> {},
                 err |-> FALSE, align |-> a]
    /\ bufs = [h \in BufferHandles |-> [count |-> 0, data |-> <<>>, guard |-> FALSE]]
    /\ tex = <<>>
    /\ prog = <<>>

NextBuf ==
    \/ \E h \in BufferHandles, data \in Datas(sizeof) : Buffer_set(h, data)
    \/ \E h \in BufferHandles, range \in Ranges, ub \in {"continue", "abort"} :
          WellFormed(range) /\ BufferSlice_get_all(h, range, ub)
    \/ \E h \in BufferHandles : DropMapped(h)
    \/ \E h \in BufferHandles : Bind(h)
    \/ \E h \in BufferHandles : Unbind(h)

SpecBuf == InitBuf /\ [][NextBuf]_vars

-----------------------------------------------------------------------------
(* Properties of the binding protocol *)

\* C1: immediately after any resource has been bound, querying the current
\* binding of its kind returns that resource's own identifier.
C1_BoundIsCurrent ==
    last.op = "bind" => Current(last.h, bound) = Some(last.h.id)

\* C2: with no-unbind off, once a binding scope has returned, the binding for
\* that kind is again the identifier that was bound before the scope began
\* (stated for resources other than the backbuffer handle).
C2_ReleaseRestoresPrevious ==
    (~noUnbind /\ last.op = "exit" /\ last.how = "return" /\ last.h.id # 0)
        => bound[Point(last.h)] = last.pre

\* C3: when a scope of resource B was opened inside a scope of a distinct
\* resource A of the same kind, then after B's scope has returned A is the
\* bound resource again, not the zero sentinel (stated for resources other
\* than the backbuffer handle).
C3_NestedRestoresOuter ==
    (/\ ~noUnbind
     /\ last.h.id # 0
     /\ last.op = "exit" /\ last.how = "return"
     /\ stack # <<>>
     /\ Top.h # last.h
     /\ Point(Top.h) = Point(last.h)
     /\ last.pre = Top.h.id)
        => bound[Point(Top.h)] = Top.h.id

\* C4: a driver call made by the callback passed to with_binding (or under a
\* live guard) finds the resource bound at its binding point.
C4_CallbackSeesResource ==
    last.op = "call" => last.seen = last.h.id

\* C5: with no-unbind off, a binding scope restores the prior binding on
\* every exit path: normal return, error return, and panic (stated for
\* resources other than the backbuffer handle).
C5_EveryExitRestores ==
    (~noUnbind /\ last.op = "exit" /\ last.h.id # 0)
        => bound[Point(last.h)] = last.pre

\* C6: no operation yields an identifier whose value is zero: a constructor
\* or a current-binding query yields either nothing or a non-zero identifier,
\* and every live handle other than the backbuffer handle holds a non-zero
\* identifier.
C6_NeverZeroIdentifier ==
    /\ \A h \in alive : ~h.glref => h.id # 0
    /\ (last.op \in {"new", "current"} /\ ~last.h.glref /\ last.res.some)
          => last.res.id # 0

\* C7: no delete call for identifier zero is ever issued, and unbind on the
\* backbuffer handle issues no driver call and leaves the framebuffer binding
\* as it was.
C7_BackbufferInert ==
    /\ \A i \in 1..Len(issued) :
          ~(issued[i].fn = "DeleteFramebuffers" /\ issued[i].id = 0)
    /\ (last.op = "unbind" /\ last.h.glref)
          => (issued = <<>> /\ bound["FRAMEBUFFER"] = last.pre)

\* The backbuffer handle has been dropped, made again and unbound while
\* another framebuffer was bound.
C7_Witness ==
    /\ last.op = "unbind" /\ last.h.glref /\ last.h.id = 0
    /\ bound["FRAMEBUFFER"] # 0
    /\ \E d \in dropped : d.glref

-----------------------------------------------------------------------------
(* Properties of buffer data *)

\* C8: after n elements have been uploaded the buffer reports len() = n, and
\* mapping the full range for read (0..n or the unbounded range) of a buffer
\* of any kind addresses exactly the uploaded storage and returns exactly the
\* n uploaded elements (n >= 1, no driver error pending, buffer not mapped).
C8_RoundTrip ==
    /\ last.op = "set" => Buffer_len(bufs[last.h]) = last.n
    /\ (/\ last.op = "get_all"
        /\ last.clean
        /\ Buffer_len(bufs[last.h]) >= 1
        /\ last.range \in {Range(Unbounded, Unbounded),
                           Range(Included(0), Excluded(Buffer_len(bufs[last.h])))})
          => /\ last.result = "ok"
             /\ last.offset = 0
             /\ last.size = Len(drv.store[last.h.id])
             /\ last.data = bufs[last.h].data

\* C9: for a uniform buffer the byte offset of logical element i is
\* i * ceil(element_size / alignment) * alignment, and uploaded data is padded
\* to that stride, for every element size including exact multiples of the
\* alignment.
C9_UniformOffset ==
    LET ceil == (sizeof + drv.align - 1) \div drv.align
        stride == ceil * drv.align
    IN
    /\ (/\ last.op = "get_all"
        /\ last.h.kind = "UNIFORM_BUFFER"
        /\ last.range.start.b = "Included")
          => last.offset = last.range.start.i * stride
    /\ (last.op = "set" /\ last.h.kind = "UNIFORM_BUFFER")
          => Len(drv.store[last.h.id]) = last.n * stride

\* C10: mapping a sub-range whose byte range does not lie within the buffer's
\* allocated size fails with an error and issues no map call.
C10_OutOfRangeRejected ==
    (/\ last.op = "get_all"
     /\ last.offset + last.size > Len(drv.store[last.h.id]))
        => /\ last.result = "err"
           /\ \A i \in 1..Len(issued) : issued[i].fn # "MapBufferRange"

\* C11: every buffer mapping is undone by its guard: once the mapped-data
\* guard of a buffer has been dropped, that buffer is no longer mapped in the
\* driver.
C11_GuardUnmaps ==
    last.op = "unmap" => last.h.id \notin drv.mapped

-----------------------------------------------------------------------------
(* Textures (crate violette) *)

MaxExtent == 3      \* width and height of a texture
COUNT == 2          \* F::COUNT, the channels of the texture format (Rg)

\* The widths of a texture; 2^25 - 1 is one a u32 holds and an f32 does not
Widths == 1..MaxExtent \cup {2^25 - 1}

\* f32::log2(x).floor() as usize, the logarithm taken as exact on x: the
\* integer k with 2^k <= x < 2^(k+1)
RECURSIVE log2_floor(_)
log2_floor(x) == IF x < 2 THEN 0 ELSE 1 + log2_floor(x \div 2)

\* `n as f32` for a u32 n: the nearest value with a 24-bit significand, ties
\* to the even significand
as_f32(n) ==
    IF n < 2^24 THEN n
    ELSE LET unit == 2^(log2_floor(n) - 23)
             q == n \div unit
             r == n % unit
             up == 2 * r > unit \/ (2 * r = unit /\ q % 2 = 1)
         IN  IF up THEN (q + 1) * unit ELSE q * unit

\* Texture::num_mipmaps
num_mipmaps(t) ==
    LET wh == IF t.width >= t.height THEN t.width ELSE t.height
        whd == IF wh >= t.depth THEN wh ELSE t.depth
        n == IF t.has_mipmaps THEN log2_floor(as_f32(whd)) ELSE 0
    IN  1 + n

\* A driver call on a texture target; level and rect where the call has them
TCall(fn, point, level, rect) ==
    [fn |-> fn, point |-> point, id |-> 0, level |-> level, rect |-> rect]

\* gl_error_guard(|| self.with_binding(|| body))
Guarded(h, body, nu) ==
    Scoped_enter(h, nu) \o body \o Scoped_return(h, nu) \o <<GetError>>

\* What an operation did: the calls it issued, how it ended, and what it left
\* (the fields of the texture; the message of the error)
Ran(calls, result, t) == [calls |-> calls, result |-> result, t |-> t]

\* Texture::generate_mipmaps; ok: glGetError reported no error
generate_mipmaps(h, t, ok, nu) ==
    Ran(Guarded(h, <<TCall("GenerateMipmap", Point(h), 0, <<>>)>>, nu),
        IF ok THEN "ok" ELSE "err",
        IF ok THEN [t EXCEPT !.has_mipmaps = TRUE] ELSE t)

\* Texture::mipmap_size; nonzero: the driver reports a non-zero size for the level
mipmap_size(h, t, level, ok, nonzero) ==
    Ran(Texture_bind(h)
            \o <<TCall("GetTexLevelParameteriv", Point(h), level, <<>>),
                 TCall("GetTexLevelParameteriv", Point(h), level, <<>>),
                 GetError>>,
        IF ok /\ nonzero THEN "ok" ELSE "err",
        t)

\* Texture::reserve_memory
reserve_memory(h, t, ok, nu) ==
    IF h.dim # "D2" THEN Ran(<<>>, "err", t)
    ELSE Ran(Guarded(h, <<TCall("TexImage2D", Point(h), 0,
                                <<0, 0, t.width, t.height>>)>>, nu),
             IF ok THEN "ok" ELSE "err", t)

\* Texture::set_data for data of len subpixels; errAt: which of the two
\* glGetError checks (upload, mipmaps) reports an error, 0 for none
set_data(h, t, len, errAt, nu) ==
    LET valid == len # 0 /\ t.width * t.height * COUNT = len
        upload == IF is_multisample(h.samples)
                  THEN TCall("TexImage2DMultisample", Point(h), 0,
                             <<0, 0, t.width, t.height>>)
                  ELSE TCall("TexImage2D", Point(h), 0, <<0, 0, t.width, t.height>>)
        gen == generate_mipmaps(h, t, errAt # 2, nu)
    IN  IF ~valid THEN Ran(<<>>, "err", t)
        ELSE IF h.dim # "D2" THEN Ran(Scoped_enter(h, nu), "panic", t)
        ELSE IF errAt = 1 THEN Ran(Guarded(h, <<upload>>, nu), "err", t)
        ELSE Ran(Guarded(h, <<upload>>, nu) \o gen.calls, gen.result, gen.t)

\* Texture::set_sub_data_2d
set_sub_data_2d(h, t, level, x, y, w, hh, ok, nu) ==
    LET pass == /\ x >= 0
                /\ y >= 0
                /\ x + w < t.width
                /\ y + hh < t.height
                /\ level < num_mipmaps(t)
    IN  IF ~pass THEN Ran(<<>>, "err", t)
        ELSE IF h.dim # "D2" \/ is_multisample(h.samples)
        THEN Ran(Scoped_enter(h, nu), "panic", t)
        ELSE Ran(Guarded(h, <<TCall("TexSubImage2D", Point(h), level,
                                    <<x, y, w, hh>>)>>, nu),
                 IF ok THEN "ok" ELSE "err", t)

\* Texture::download; errAt: which glGetError check (mipmap_size, GetTexImage)
\* reports an error, 0 for none
download(h, t, level, errAt, nonzero) ==
    LET size == mipmap_size(h, t, level, errAt # 1, nonzero)
    IN  IF ~(level < num_mipmaps(t)) THEN Ran(<<>>, "err", t)
        ELSE IF size.result = "err"
        THEN Ran(Texture_bind(h) \o size.calls, "err", t)
        ELSE Ran(Texture_bind(h) \o size.calls
                    \o <<TCall("GetTexImage", Point(h), level, <<>>), GetError>>,
                 IF errAt = 2 THEN "err" ELSE "ok", t)

\* Texture::download_image (feature "img")
download_image(h, t, level, errAt, nonzero) ==
    LET size == mipmap_size(h, t, level, errAt # 3, nonzero)
        data == download(h, t, level, errAt, nonzero)
    IN  IF size.result = "err" THEN size
        ELSE Ran(size.calls \o data.calls, data.result, t)

\* Texture::clear_resize; errAt: which glGetError check (reserve_memory,
\* generate_mipmaps) reports an error, 0 for none
clear_resize(h, t, width, height, depth, errAt, nu) ==
    LET sized == [t EXCEPT !.width = width, !.height = height, !.depth = depth]
        mem == reserve_memory(h, sized, errAt # 1, nu)
        gen == generate_mipmaps(h, sized, errAt # 2, nu)
    IN  IF mem.result = "err" THEN mem
        ELSE Ran(mem.calls \o gen.calls, gen.result, gen.t)

\* Texture has no Drop implementation: dropping the handle issues no call.
Texture_drop(h) == <<>>

\* One operation of the texture handle h: r is what it did
TexStep(h, op, level, rect, len, r) ==
    /\ ~unwinding
    /\ h \in alive
    /\ issued' = r.calls
    /\ bound' = Apply(crate, bound, r.calls)
    /\ tex' = r.t
    /\ last' = [op |-> op, h |-> h, level |-> level, rect |-> rect, len |-> len,
                result |-> r.result, had |-> tex.has_mipmaps]
    /\ UNCHANGED <<crate, noUnbind, stack, unwinding, alive, dropped>>
    /\ UNCHANGED <<sizeof, drv, bufs, prog>>

\* The owning handle goes out of scope.
DropTexture(h) ==
    /\ ~unwinding
    /\ h \in alive
    /\ issued' = Texture_drop(h)
    /\ bound' = Apply(crate, bound, issued')
    /\ alive' = alive \ {h}
    /\ dropped' = dropped \cup {h}
    /\ last' = [op |-> "drop_texture", h |-> h]
    /\ UNCHANGED <<stack, unwinding>>
    /\ UNCHANGED <<crate, noUnbind, bufvars>>

\* Texture contents and mipmaps in crate violette: a freshly constructed
\* texture (Texture::new: the given extents, no mipmaps) of one of the kinds is
\* filled, resized, read back and dropped.
InitTex ==
    /\ \E h \in TextureHandles : Start({"violette"}, {h})
    /\ \E w \in Widths, hh \in 1..MaxExtent, d \in 1..2 :
          tex = [width |-> w, height |-> hh, depth |-> d, has_mipmaps |-> FALSE]
    /\ sizeof = 1
    /\ drv = [store |-> <<>>, mapped |-> {}, err |-> FALSE, align |-> 1]
    /\ bufs = <<>>
    /\ prog = <<>>

\* The data lengths handed to set_data are none, those of the two readings of
\* the extents, and one subpixel more; the levels reach one past the last.
NextTex ==
    LET Lens == {0, tex.width * tex.height * COUNT,
                 tex.width * tex.height * tex.depth * COUNT,
                 tex.width * tex.height * COUNT + 1}
        Levels == 0..(1 + log2_floor(MaxExtent))
    IN  \/ \E h \in TextureHandles, len \in Lens, errAt \in 0..2 :
              TexStep(h, "set_data", 0, <<>>, len,
                      set_data(h, tex, len, errAt, noUnbind))
        \/ \E h \in TextureHandles, ok \in BOOLEAN :
              TexStep(h, "generate_mipmaps", 0, <<>>, 0,
                      generate_mipmaps(h, tex, ok, noUnbind))
        \/ \E h \in TextureHandles, w \in Widths, hh \in 1..MaxExtent, d \in 1..2,
              errAt \in 0..2 :
              TexStep(h, "clear_resize", 0, <<>>, 0,
                      clear_resize(h, tex, w, hh, d, errAt, noUnbind))
        \/ \E h \in TextureHandles, level \in Levels, ok \in BOOLEAN, nonzero \in BOOLEAN :
              TexStep(h, "mipmap_size", level, <<>>, 0,
                      mipmap_size(h, tex, level, ok, nonzero))
        \/ \E h \in TextureHandles, level \in Levels, errAt \in 0..2, nonzero \in BOOLEAN :
              TexStep(h, "download", level, <<>>, 0,
                      download(h, tex, level, errAt, nonzero))
        \/ \E h \in TextureHandles, level \in Levels, errAt \in 0..3, nonzero \in BOOLEAN :
              TexStep(h, "download_image", level, <<>>, 0,
                      download_image(h, tex, level, errAt, nonzero))
        \/ \E h \in TextureHandles : DropTexture(h)

SpecTex == InitTex /\ [][NextTex]_vars

\* Sub-rectangle uploads in crate violette on a texture of fixed extents.
InitSub ==
    /\ \E h \in TextureHandles : Start({"violette"}, {h})
    /\ \E w \in (MaxExtent - 1)..MaxExtent :
          tex = [width |-> w, height |-> MaxExtent, depth |-> 1, has_mipmaps |-> FALSE]
    /\ sizeof = 1
    /\ drv = [store |-> <<>>, mapped |-> {}, err |-> FALSE, align |-> 1]
    /\ bufs = <<>>
    /\ prog = <<>>

NextSub ==
    \/ \E h \in TextureHandles, level \in 0..(1 + log2_floor(MaxExtent)),
          x \in -1..1, y \in -1..0, w \in -1..MaxExtent, hh \in 1..MaxExtent,
          ok \in BOOLEAN :
          TexStep(h, "set_sub_data_2d", level, <<x, y, w, hh>>, 0,
                  set_sub_data_2d(h, tex, level, x, y, w, hh, ok, noUnbind))
    \/ \E h \in TextureHandles, ok \in BOOLEAN :
          TexStep(h, "generate_mipmaps", 0, <<>>, 0,
                  generate_mipmaps(h, tex, ok, noUnbind))

SpecSub == InitSub /\ [][NextSub]_vars

-----------------------------------------------------------------------------
(* Properties of textures *)

\* C12: set_data passes validation only when the data length equals
\* width x height x depth x channel-count; every other length, the empty one
\* included, ends without success and without an upload call.
C12_LengthValidated ==
    (last.op = "set_data"
        /\ last.len # tex.width * tex.height * tex.depth * COUNT)
    => /\ last.result # "ok"
       /\ \A i \in DOMAIN issued :
             issued[i].fn \notin {"TexImage2D", "TexImage2DMultisample"}

\* C13: on a plain 2D texture set_sub_data_2d issues the sub-image call if and
\* only if 0 <= x, 0 <= y, x + w <= width, y + h <= height and
\* level < num_mipmaps(); otherwise it returns an error and issues no call.
C13_SubImageWithinBounds ==
    (last.op = "set_sub_data_2d" /\ last.h.dim = "D2" /\ ~is_multisample(last.h.samples))
    => LET x == last.rect[1]
           y == last.rect[2]
           w == last.rect[3]
           hh == last.rect[4]
           within == /\ 0 <= x
                     /\ 0 <= y
                     /\ x + w <= tex.width
                     /\ y + hh <= tex.height
                     /\ last.level < num_mipmaps(tex)
           called == \E i \in DOMAIN issued : issued[i].fn = "TexSubImage2D"
       IN  /\ called <=> within
           /\ ~within => (last.result = "err" /\ issued = <<>>)

\* C14: num_mipmaps() is 1 as long as no mipmap generation has succeeded; once
\* one has, it is 1 + floor(log2(max(width, height, depth))) for the current
\* extents; a failed generation leaves the has-mipmaps flag as it was.
C14_MipmapCount ==
    LET wh == IF tex.width >= tex.height THEN tex.width ELSE tex.height
        m == IF wh >= tex.depth THEN wh ELSE tex.depth
        n == num_mipmaps(tex)
    IN  (tex # <<>>)
        => /\ ~tex.has_mipmaps => n = 1
           /\ tex.has_mipmaps => (2^(n - 1) <= m /\ m < 2^n)
           /\ (last.op = "generate_mipmaps" /\ last.result = "err")
                 => tex.has_mipmaps = last.had

\* C15: download, download_image, mipmap_size and set_sub_data_2d called with
\* a level that is not below num_mipmaps() fail, and no driver call they issue
\* carries that level.
C15_LevelChecked ==
    (/\ last.op \in {"download", "download_image", "mipmap_size", "set_sub_data_2d"}
     /\ last.level >= num_mipmaps(tex))
    => /\ last.result = "err"
       /\ \A i \in DOMAIN issued :
             issued[i].fn \in {"GetTexLevelParameteriv", "GetTexImage", "TexSubImage2D"}
                => issued[i].level # last.level

\* C16: once the owning handle of a texture has gone out of scope, the delete
\* call for its texture name has been issued exactly once.
C16_DeletedWithHandle ==
    last.op = "drop_texture"
    => Cardinality({i \in DOMAIN issued :
                       issued[i].fn = "DeleteTextures" /\ issued[i].id = last.h.id}) = 1

-----------------------------------------------------------------------------
(* Shaders and programs *)

MaxProgs == 3       \* programs built in one behaviour
MaxLoc == 1         \* the highest location the driver reports

\* The program names the driver hands out; it may hand out again a name whose
\* program was deleted.
ProgIds == {1, 2}

\* The linked Program of crate violette that holds the name id
ProgramHandle(id) == Handle("violette", "program", "-", "-", 0, id, FALSE)

\* utils::gl_string on the info log the driver wrote
gl_string(log) == IF log = "" THEN None ELSE Some(log)

\* Shader::new for the stage (1 vertex, 2 fragment, 3 geometry); src tells
\* whether the source compiles, log is the info log the driver keeps. In crate
\* violette gl_string yields the string itself; violette-low unwraps an Option.
Shader_new(c, stage, src, log) ==
    LET id == 10 + stage
        compile == <<Call("CreateShader", "-", id), Call("ShaderSource", "-", id),
                     Call("CompileShader", "-", id),
                     Call("GetShaderiv", "COMPILE_STATUS", id)>>
        read == <<Call("GetShaderiv", "INFO_LOG_LENGTH", id),
                  Call("GetShaderInfoLog", "-", id)>>
    IN  IF src = "ok" THEN Ran(compile, "ok", "")
        ELSE IF c = "violette-low" /\ ~gl_string(log).some
        THEN Ran(compile \o read, "panic", "")
        ELSE Ran(compile \o read, "compile_err", log)

\* Program::link without the std::mem::forget(self): the destructor of the
\* consumed program runs when link returns.
link_dropping_self(c, id, linked, log) ==
    LET try == <<Call("LinkProgram", "-", id), Call("GetProgramiv", "LINK_STATUS", id)>>
        read == <<Call("GetProgramiv", "INFO_LOG_LENGTH", id),
                  Call("GetProgramInfoLog", "-", id)>>
        drop == <<Call("DeleteProgram", "PROGRAM", id)>>
    IN  IF linked
        THEN [calls |-> try \o drop, result |-> "ok", t |-> ""]
        ELSE [calls |-> try \o read \o drop, result |-> "link_err", t |-> log]

\* Program<Unlinked>::link of the program named id; linked: the driver's
\* LINK_STATUS. The unlinked handle is forgotten before the link call.
link(c, id, linked, log) ==
    LET try == <<Call("LinkProgram", "-", id), Call("GetProgramiv", "LINK_STATUS", id)>>
        read == <<Call("GetProgramiv", "INFO_LOG_LENGTH", id),
                  Call("GetProgramInfoLog", "-", id)>>
    IN  IF linked
        THEN Ran(try \o (IF c = "violette-low"
                         THEN <<Call("IsProgram", "-", id)>> ELSE <<>>), "ok", "")
        ELSE IF c = "violette-low" /\ ~gl_string(log).some
        THEN Ran(try \o read, "panic", "")
        ELSE Ran(try \o read, "link_err", log)

\* Drop for Shader
Shader_drop(stage) == <<Call("DeleteShader", "-", 10 + stage)>>

\* Program::from_sources; srcs[k] is "ok", "bad" or (fragment, geometry) "none";
\* id is the name glCreateProgram hands out.
from_sources(c, srcs, log, linked, id) ==
    LET v == Shader_new(c, 1, srcs[1], log)
        f == Shader_new(c, 2, srcs[2], log)
        g == Shader_new(c, 3, srcs[3], log)
        has(k) == srcs[k] # "none"
        fcalls == IF has(2) THEN f.calls ELSE <<>>
        gcalls == IF has(3) THEN g.calls ELSE <<>>
        fdrop == IF has(2) THEN Shader_drop(2) ELSE <<>>
        gdrop == IF has(3) THEN Shader_drop(3) ELSE <<>>
        attach(k) == <<Call("AttachShader", k, id)>>
        new == <<Call("CreateProgram", "-", id)>>
        l == link(c, id, linked, log)
        build == IF c = "violette"
                 THEN new \o attach(11)
                      \o (IF has(2) THEN attach(12) \o fdrop ELSE <<>>)
                      \o (IF has(3) THEN attach(13) \o gdrop ELSE <<>>)
                      \o l.calls \o Shader_drop(1)
                 ELSE new \o attach(11)
                      \o (IF has(2) THEN attach(12) ELSE <<>>)
                      \o (IF has(3) THEN attach(13) ELSE <<>>)
                      \o l.calls \o gdrop \o fdrop \o Shader_drop(1)
    IN  IF v.result # "ok" THEN v
        ELSE IF has(2) /\ f.result # "ok"
        THEN Ran(v.calls \o f.calls \o Shader_drop(1), f.result, f.t)
        ELSE IF has(3) /\ g.result # "ok"
        THEN Ran(v.calls \o fcalls \o g.calls \o fdrop \o Shader_drop(1), g.result, g.t)
        ELSE Ran(v.calls \o fcalls \o gcalls \o build, l.result, l.t)

\* Drop for Program
Program_drop(id) == <<Call("DeleteProgram", "PROGRAM", id)>>

\* Program::uniform; location is what glGetUniformLocation reports for the name
uniform(id, inst, location) ==
    LET ask == <<Call("GetUniformLocation", "-", id)>>
    IN  IF location >= 0
        THEN Ran(ask \o <<Call("GetProgramResourceiv", location, id)>>, "some",
                 [some |-> TRUE, program |-> id, location |-> location, inst |-> inst])
        ELSE Ran(ask, "none", [some |-> FALSE, program |-> 0, location |-> 0, inst |-> 0])

\* Program::attribute; attr is what glGetAttribLocation reports for the name
attribute(id, attr, ok) ==
    LET ask == <<Call("GetAttribLocation", "-", id), GetError>>
    IN  IF ~ok THEN Ran(ask, "err", -1)
        ELSE IF ~(attr > 0) THEN Ran(ask, "err", -1)
        ELSE Ran(ask \o <<Call("GetActiveAttrib", attr, id)>>, "some", attr)

\* UniformLocation::is_in_program
is_in_program(location, id) == location.program = id

\* Program::set_uniform
set_uniform(id, location, ok, nu) ==
    IF id # location.program THEN Ran(<<>>, "err", 0)
    ELSE Ran(Guarded(ProgramHandle(id),
                     <<Call("Uniform", location.location, 0)>>, nu),
             IF ok THEN "ok" ELSE "err", 0)

\* The driver's program objects after the calls: a deleted program goes away
\* unless it is the current one
Objects(objs, b, calls) ==
    (objs \cup {calls[i].id : i \in {j \in DOMAIN calls : calls[j].fn = "CreateProgram"}})
        \ {calls[i].id : i \in {j \in DOMAIN calls :
                                   calls[j].fn = "DeleteProgram" /\ b["PROGRAM"] # calls[j].id}}

\* One operation on programs: r is what it did, owner and loc the handles after
ProgStep(op, id, args, r, owner, loc) ==
    /\ ~unwinding
    /\ issued' = r.calls
    /\ bound' = Apply(crate, bound, r.calls)
    /\ prog' = [objs |-> Objects(prog.objs, bound, r.calls), owner |-> owner,
                loc |-> loc,
                made |-> IF op = "from_sources" THEN prog.made + 1 ELSE prog.made]
    /\ last' = [op |-> op, id |-> id, args |-> args, result |-> r.result, t |-> r.t,
                inst |-> IF id = 0 THEN 0 ELSE prog.owner[id], loc |-> prog.loc]
    /\ UNCHANGED <<crate, noUnbind, stack, unwinding, alive, dropped>>
    /\ UNCHANGED <<sizeof, drv, bufs, tex>>

\* Programs in both crates: programs are built from sources, dropped, asked
\* for uniforms and attributes, and written to (the last three in violette).
InitProg ==
    /\ Start(Crates, {})
    /\ sizeof = 1
    /\ drv = [store |-> <<>>, mapped |-> {}, err |-> FALSE, align |-> 1]
    /\ bufs = <<>>
    /\ tex = <<>>
    /\ prog = [objs |-> {}, owner |-> [id \in ProgIds |-> 0],
               loc |-> [some |-> FALSE, program |-> 0, location |-> 0, inst |-> 0],
               made |-> 0]

NextProg ==
    LET Owned == {id \in ProgIds : prog.owner[id] # 0}
    IN  \/ \E vs \in {"ok", "bad"}, fs \in {"none", "ok", "bad"}, gs \in {"none", "ok", "bad"},
              log \in {"", "0:1: error"}, linked \in BOOLEAN, id \in ProgIds \ prog.objs :
              LET r == from_sources(crate, <<vs, fs, gs>>, log, linked, id)
              IN  /\ prog.made < MaxProgs
                  /\ ProgStep("from_sources", 0, <<vs, fs, gs, log, id>>, r,
                              IF r.result = "ok"
                              THEN [prog.owner EXCEPT ![id] = prog.made + 1]
                              ELSE prog.owner,
                              prog.loc)
        \/ \E id \in Owned :
              ProgStep("drop_program", id, <<>>, Ran(Program_drop(id), "ok", 0),
                       [prog.owner EXCEPT ![id] = 0], prog.loc)
        \/ \E id \in Owned, location \in -1..MaxLoc :
              LET r == uniform(id, prog.owner[id], location)
              IN  /\ crate = "violette"
                  /\ ProgStep("uniform", id, <<location>>, r, prog.owner,
                              IF r.t.some THEN r.t ELSE prog.loc)
        \/ \E id \in Owned, attr \in -1..MaxLoc, ok \in BOOLEAN :
              /\ crate = "violette"
              /\ ProgStep("attribute", id, <<attr, ok>>, attribute(id, attr, ok),
                          prog.owner, prog.loc)
        \/ \E id \in Owned, ok \in BOOLEAN :
              /\ crate = "violette"
              /\ prog.loc.some
              /\ ProgStep("set_uniform", id, <<>>,
                          set_uniform(id, prog.loc, ok, noUnbind), prog.owner, prog.loc)

SpecProg == InitProg /\ [][NextProg]_vars

-----------------------------------------------------------------------------
(* Properties of shaders and programs *)

\* C17: when a shader of from_sources fails to compile, no program is created,
\* attached to or linked, the returned error carries the compile log of the
\* driver, and an info log is read only after the compile status of that shader
\* was fetched and found false.
C17_CompileFailureStopsBuild ==
    (last.op = "from_sources" /\ \E k \in 1..3 : last.args[k] = "bad")
    => /\ \A i \in DOMAIN issued :
             issued[i].fn \notin {"CreateProgram", "AttachShader", "LinkProgram"}
       /\ last.result = "compile_err"
       /\ last.t = last.args[4]
       /\ \A j \in DOMAIN issued :
             issued[j].fn = "GetShaderInfoLog"
                => /\ last.args[issued[j].id - 10] = "bad"
                   /\ \E i \in 1..(j - 1) :
                         /\ issued[i].fn = "GetShaderiv"
                         /\ issued[i].point = "COMPILE_STATUS"
                         /\ issued[i].id = issued[j].id

\* C18: when the link of a program fails, the link log of the driver is
\* returned and the program object of the consumed unlinked program is gone
\* from the driver.
C18_FailedLinkDeletes ==
    (last.op = "from_sources" /\ last.result = "link_err")
    => /\ last.t = last.args[4]
       /\ last.args[5] \notin prog.objs

\* C19: set_uniform with a location obtained from another program instance
\* returns an error and issues no uniform write, and is_in_program holds only
\* of the program instance the location was obtained from.
C19_LocationScoped ==
    /\ (last.op = "set_uniform" /\ last.loc.inst # last.inst)
          => /\ last.result = "err"
             /\ \A i \in DOMAIN issued : issued[i].fn # "Uniform"
    /\ \A id \in ProgIds :
          (prog.owner[id] # 0 /\ prog.loc.some /\ is_in_program(prog.loc, id))
             => prog.loc.inst = prog.owner[id]

\* C20: with no driver error pending, the lookup of a name that is not active
\* (location -1) gives an absent result, never an error, and the lookup of an
\* active name gives its location, whatever location the driver reports.
C20_LookupTotal ==
    /\ last.op = "uniform"
          => IF last.args[1] < 0 THEN last.result = "none"
             ELSE last.result = "some" /\ last.t.location = last.args[1]
    /\ (last.op = "attribute" /\ last.args[2])
          => IF last.args[1] < 0 THEN last.result = "none"
             ELSE last.result = "some" /\ last.t = last.args[1]

\* C24: Texture::mipmap_size and Texture::download return with the texture
\* they bound internally no longer current at its binding point.
C24_NoBindingLeak ==
    last.op \in {"mipmap_size", "download"}
    => bound[Point(last.h)] # last.h.id

-----------------------------------------------------------------------------
(* Textures built from pixel data *)

\* Texture::from_2d_pixels in crate violette for a slice of len subpixels;
\* errAt as in set_data. Texture::new yields the handle h with the extents
\* computed; NonZeroU32::new(0).unwrap() panics.
from_2d_pixels(h, t, width, len, errAt, nu) ==
    LET height == (len \div COUNT) \div width
        this == [width |-> width, height |-> height, depth |-> 1,
                 has_mipmaps |-> FALSE]
    IN  IF len = 0 THEN Ran(<<>>, "err", t)
        ELSE IF (len \div COUNT) % width # 0 THEN Ran(<<>>, "err", t)
        ELSE IF height = 0 THEN Ran(<<>>, "panic", t)
        ELSE LET r == set_data(h, this, len, errAt, nu)
             IN  Ran(<<Call("GenTextures", "-", h.id)>> \o r.calls, r.result, r.t)

\* let texture = Texture::from_2d_pixels(width, data): the texture replaces
\* the one held before; a panic ends the process.
FromPixels(h, width, len, errAt) ==
    /\ ~unwinding
    /\ LET r == from_2d_pixels(h, tex, width, len, errAt, noUnbind)
       IN  /\ issued' = r.calls
           /\ bound' = Apply(crate, bound, r.calls)
           /\ tex' = r.t
           /\ alive' = IF r.result = "ok" THEN {h} ELSE {}
           /\ unwinding' = (r.result = "panic")
           /\ last' = [op |-> "from_2d_pixels", h |-> h, level |-> 0,
                       rect |-> <<width>>, len |-> len, result |-> r.result,
                       had |-> FALSE]
    /\ UNCHANGED <<crate, noUnbind, stack, dropped, sizeof, drv, bufs, prog>>

InitPix ==
    /\ Start({"violette"}, {})
    /\ tex = [width |-> 1, height |-> 1, depth |-> 1, has_mipmaps |-> FALSE]
    /\ sizeof = 1
    /\ drv = [store |-> <<>>, mapped |-> {}, err |-> FALSE, align |-> 1]
    /\ bufs = <<>>
    /\ prog = <<>>

NextPix ==
    \/ \E h \in {t \in TextureHandles : t.dim = "D2" /\ t.samples = 1},
          width \in 1..MaxExtent, len \in 0..(MaxExtent * COUNT + 1),
          errAt \in 0..2 :
          FromPixels(h, width, len, errAt)
    \/ \E h \in TextureHandles, ok \in BOOLEAN :
          TexStep(h, "generate_mipmaps", 0, <<>>, 0,
                  generate_mipmaps(h, tex, ok, noUnbind))

SpecPix == InitPix /\ [][NextPix]_vars

\* C28: Texture::from_2d_pixels never panics: it returns either a texture
\* whose width x height x COUNT equals the length of the data, or an error.
C28_FromPixelsTotal ==
    last.op = "from_2d_pixels"
    => /\ last.result \in {"ok", "err"}
       /\ last.result = "ok" => tex.width * tex.height * COUNT = last.len

\* C26: in from_sources no DeleteShader call for a shader attached to the
\* program precedes the LinkProgram call.
C26_DeleteAfterLink ==
    last.op = "from_sources"
    => \A i, j, l \in DOMAIN issued :
          (/\ issued[i].fn = "AttachShader"
           /\ issued[j].fn = "DeleteShader"
           /\ issued[j].id = issued[i].point
           /\ issued[l].fn = "LinkProgram")
          => l < j

-----------------------------------------------------------------------------
(* Program handles: new, add_shader, link, drop *)

\* One operation on the Program handles; unl and lnk are the names held by
\* Program<Unlinked> and Program<Linked> handles after it. prog.deleted counts
\* the DeleteProgram calls for a name since the CreateProgram that made it.
\* A panic (the unwrap in link of violette-low) starts the unwinding, during
\* which the remaining handles are still dropped.
HandleStep(op, id, r, unl, lnk) ==
    /\ issued' = r.calls
    /\ bound' = Apply(crate, bound, r.calls)
    /\ prog' = [objs |-> Objects(prog.objs, bound, r.calls),
                unlinked |-> unl, linked |-> lnk,
                deleted |-> [i \in ProgIds |->
                    IF op = "new" /\ i = id THEN 0
                    ELSE prog.deleted[i]
                         + Cardinality({j \in DOMAIN r.calls :
                                           /\ r.calls[j].fn = "DeleteProgram"
                                           /\ r.calls[j].id = i})],
                made |-> IF op = "new" THEN prog.made + 1 ELSE prog.made]
    /\ unwinding' = (unwinding \/ r.result = "panic")
    /\ last' = [op |-> op, id |-> id, result |-> r.result,
                status |-> IF id \in prog.linked THEN "Linked" ELSE "Unlinked"]
    /\ UNCHANGED <<crate, noUnbind, stack, alive, dropped>>
    /\ UNCHANGED <<sizeof, drv, bufs, tex>>

InitLink ==
    /\ Start(Crates, {})
    /\ sizeof = 1
    /\ drv = [store |-> <<>>, mapped |-> {}, err |-> FALSE, align |-> 1]
    /\ bufs = <<>>
    /\ tex = <<>>
    /\ prog = [objs |-> {}, unlinked |-> {}, linked |-> {},
               deleted |-> [id \in ProgIds |-> 0], made |-> 0]

NextLink ==
    \/ \E id \in ProgIds \ prog.objs :
          /\ ~unwinding
          /\ prog.made < MaxProgs
          /\ HandleStep("new", id, Ran(<<Call("CreateProgram", "-", id)>>, "ok", 0),
                        prog.unlinked \cup {id}, prog.linked)
    \/ \E id \in prog.unlinked, stage \in 1..3 :
          /\ ~unwinding
          /\ HandleStep("add_shader", id,
                        Ran(<<Call("AttachShader", 10 + stage, id)>>, "ok", 0),
                        prog.unlinked, prog.linked)
    \/ \E id \in prog.unlinked, linked \in BOOLEAN, log \in {"", "0:1: error"} :
          LET r == link(crate, id, linked, log)
          IN  /\ ~unwinding
              /\ HandleStep("link", id, r, prog.unlinked \ {id},
                            IF r.result = "ok" THEN prog.linked \cup {id}
                            ELSE prog.linked)
    \/ \E id \in prog.unlinked \cup prog.linked :
          HandleStep("drop", id, Ran(Program_drop(id), "ok", 0),
                     prog.unlinked \ {id}, prog.linked \ {id})

SpecLink == InitLink /\ [][NextLink]_vars

\* C25: over any sequence of new, add_shader, link and drop, DeleteProgram is
\* issued at most once for a program, and never for a name that a live handle
\* still holds.
C25_DeletedOnce ==
    /\ \A id \in ProgIds : prog.deleted[id] <= 1
    /\ \A i \in DOMAIN issued :
          issued[i].fn = "DeleteProgram"
             => issued[i].id \notin prog.unlinked \cup prog.linked

\* A linked program, made by new, add_shader and link, has been dropped and
\* its name deleted.
C25_Witness ==
    /\ last.op = "drop"
    /\ last.status = "Linked"
    /\ prog.deleted[last.id] = 1
    /\ \E i \in DOMAIN issued :
          issued[i].fn = "DeleteProgram" /\ issued[i].id = last.id

-----------------------------------------------------------------------------
(* Vertex arrays and draw calls *)

MaxFields == 2      \* fields of a vertex type

\* GlType::STRIDE of the field types used: f32, [f32; 2], [f32; 3]
Strides == {4, 8, 12}

\* The driver calls on vertex attributes and the draw calls
ACall(fn, index, stride, offset) ==
    [fn |-> fn, point |-> "-", id |-> 0, index |-> index, stride |-> stride,
     offset |-> offset]

DCall(fn, first, count) ==
    [fn |-> fn, point |-> "-", id |-> 0, first |-> first, count |-> count]

\* VertexAttributes::vertex_attributes with the second attribute placed after
\* its own size instead of the size of the first
vertex_attributes_own_stride(sizes) ==
    LET k == Len(sizes)
        stride == CASE k = 1 -> sizes[1]
                    [] k = 2 -> sizes[1] + sizes[2]
                    [] k = 3 -> sizes[1] + sizes[2] + sizes[3]
                    [] k = 4 -> sizes[1] + sizes[2] + sizes[3] + sizes[4]
        offset(i) == CASE i = 1 -> 0
                       [] i = 2 -> sizes[2]
                       [] i = 3 -> sizes[1] + sizes[2]
                       [] i = 4 -> sizes[1] + sizes[2] + sizes[3]
    IN  [i \in 1..k |-> ACall("VertexAttribPointer", i - 1, stride, offset(i))]

\* violette-low VertexAttributes::vertex_attributes for T, (A, B), (A, B, C)
\* and (A, B, C, D); sizes are the STRIDE constants of the fields.
vertex_attributes(sizes) ==
    LET k == Len(sizes)
        stride == CASE k = 1 -> sizes[1]
                    [] k = 2 -> sizes[1] + sizes[2]
                    [] k = 3 -> sizes[1] + sizes[2] + sizes[3]
                    [] k = 4 -> sizes[1] + sizes[2] + sizes[3] + sizes[4]
        offset(i) == CASE i = 1 -> 0
                       [] i = 2 -> sizes[1]
                       [] i = 3 -> sizes[1] + sizes[2]
                       [] i = 4 -> sizes[1] + sizes[2] + sizes[3]
    IN  [i \in 1..k |-> ACall("VertexAttribPointer", i - 1, stride, offset(i))]

\* violette-low: vao.bind()?.with_vertex_buffer(buffer), then the guard of the
\* vertex array goes out of scope. b are the bindings before; pending tells
\* whether the driver's error flag was set before, raise whether a call of
\* the operation sets it.
BoundVao_with_vertex_buffer(v, buf, b, sizes, pending, raise, nu) ==
    LET enable == [i \in 1..Len(sizes) |->
                      ACall("EnableVertexAttribArray", i - 1, 0, 0)]
    IN  Ran(LowVertexArray_make_binding(v)
                \o LowBuffer_make_binding(buf)
                \o vertex_attributes(sizes)
                \o enable
                \o BindGuard_drop(Frame(buf, Current(buf, b), 0), nu)
                \o <<GetError>>
                \o BindGuard_drop(Frame(v, Current(v, b), 0), nu),
            IF pending \/ raise > 0 THEN "err" ELSE "ok", 0)

\* violette VertexArray::with_vertex_buffer for a vertex type that is one
\* GlType of the given size (the VertexAttributes implementation provided);
\* raise: 1 a call of set_vertex_attributes, 2 a later call.
with_vertex_buffer(v, buf, size, pending, raise, nu) ==
    LET attrs == Guarded(v, <<ACall("VertexAttribPointer", 0, size, 0)>>, nu)
        enable == Scoped_enter(v, nu)
                     \o <<ACall("EnableVertexAttribArray", 0, 0, 0)>>
                     \o Scoped_return(v, nu)
        head == VertexArray_bind(v) \o Buffer_bind(buf) \o attrs
    IN  IF pending \/ raise = 1 THEN Ran(head \o <<GetError>>, "err", 0)
        ELSE Ran(head \o enable \o VertexArray_unbind(v) \o Buffer_unbind(buf)
                      \o <<GetError>>,
                 IF raise = 2 THEN "err" ELSE "ok", 0)

\* violette VertexArray::with_element_buffer for indices of the given size;
\* element is the field before, the result's t the field after.
with_element_buffer(v, eb, size, element, pending, raise) ==
    Ran(VertexArray_bind(v) \o Buffer_bind(eb) \o VertexArray_unbind(v)
            \o Buffer_unbind(eb) \o <<GetError>>,
        IF pending \/ raise > 0 THEN "err" ELSE "ok",
        IF pending \/ raise > 0 THEN element ELSE size)

\* normalize_range(a..e, 0..len)
normalize_range(a, e, len) ==
    [start |-> IF a > 0 THEN a ELSE 0, end |-> IF e < len THEN e ELSE len]

\* Framebuffer::draw over the vertices a..e. In violette-low the framebuffer
\* goes through base::resource::ResourceExt::with_binding; the program and
\* the vertex array are taken to stay bound for the callback, as their
\* BindGuard keeps them.
draw(fb, p, v, b, a, e, pending, raise, nu) ==
    LET call == <<DCall("DrawArrays", a, e - a)>>
        calls == IF fb.crate = "violette"
                 THEN Scoped_enter(p, nu) \o Scoped_enter(fb, nu)
                      \o Scoped_enter(v, nu) \o call \o Scoped_return(v, nu)
                      \o Scoped_return(fb, nu) \o Scoped_return(p, nu)
                 ELSE BindCalls(p) \o Early_enter(fb, nu) \o BindCalls(v) \o call
                      \o BindGuard_drop(Frame(v, Current(v, b), 0), nu)
                      \o BindGuard_drop(Frame(p, Current(p, b), 0), nu)
    IN  Ran(calls \o <<GetError>>, IF pending \/ raise > 0 THEN "err" ELSE "ok", 0)

\* Framebuffer::draw_elements over the indices a..e; element is the size of
\* the index type recorded in the vertex array (0: none), len the length
\* recorded with it in violette-low.
draw_elements(fb, p, v, b, element, len, a, e, pending, raise, nu) ==
    LET slice == normalize_range(a, e, len)
        call == IF fb.crate = "violette"
                THEN <<DCall("DrawElements", a, e - (IF a > 0 THEN a ELSE 0))>>
                ELSE <<DCall("DrawElements", 0, slice.end - slice.start)>>
        calls == IF fb.crate = "violette"
                 THEN Scoped_enter(fb, nu) \o Scoped_enter(p, nu)
                      \o Scoped_enter(v, nu) \o call \o Scoped_return(v, nu)
                      \o Scoped_return(p, nu) \o Scoped_return(fb, nu)
                 ELSE Early_enter(fb, nu) \o BindCalls(p) \o BindCalls(v) \o call
                      \o BindGuard_drop(Frame(v, Current(v, b), 0), nu)
                      \o BindGuard_drop(Frame(p, Current(p, b), 0), nu)
    IN  IF element = 0 THEN Ran(<<>>, "bail", 0)
        ELSE Ran(calls \o <<GetError>>,
                 IF pending \/ raise > 0 THEN "err" ELSE "ok", 0)

\* violette Framebuffer::viewport: not checked
viewport(x, y, width, height) ==
    Ran(<<Call("Viewport", "-", 0)>>, "ok", 0)

\* violette-low: buffer.bind()?.set(data, hint), then the guard goes out of
\* scope: BufferData is not checked.
BoundBuffer_set(buf, b, n, nu) ==
    Ran(LowBuffer_make_binding(buf)
            \o <<BCall("BufferData", buf.kind, 0, n, <<>>)>>
            \o BindGuard_drop(Frame(buf, Current(buf, b), 0), nu),
        "ok", 0)

\* violette-low culling(mode) and set_front_face: gl_error_guard(..).unwrap()
culling(mode, pending, raise) ==
    Ran((IF mode = "none"
         THEN <<Call("CullFace", "-", 0), Call("Disable", "CULL_FACE", 0)>>
         ELSE <<Call("Enable", "CULL_FACE", 0), Call("CullFace", "-", 0)>>)
            \o <<GetError>>,
        IF pending \/ raise > 0 THEN "panic" ELSE "ok", 0)

\* One operation: r is what it did, raised whether one of its driver calls
\* set the driver's error flag; glGetError clears the flag.
DrawStep(op, args, r, raised, element) ==
    /\ ~unwinding
    /\ issued' = r.calls
    /\ bound' = Apply(crate, bound, r.calls)
    /\ drv' = [element |-> element,
               err |-> IF \E i \in DOMAIN r.calls : r.calls[i] = GetError
                       THEN FALSE ELSE drv.err \/ raised]
    /\ unwinding' = (r.result = "panic")
    /\ last' = [op |-> op, args |-> args, result |-> r.result, preb |-> bound,
                pending |-> drv.err, raised |-> raised, element |-> drv.element]
    /\ UNCHANGED <<crate, noUnbind, stack, alive, dropped>>
    /\ UNCHANGED <<sizeof, bufs, tex, prog>>

\* Both crates: one program, one vertex array, a framebuffer object and the
\* backbuffer, a vertex buffer and an index buffer. In violette-low the
\* vertex array either has no index type recorded or 2-byte indices with
\* MaxLen of them; in violette with_element_buffer records it.
InitDraw ==
    /\ Start(Crates, BindingHandles)
    /\ sizeof = 1
    /\ \E element \in {0, 2} :
          /\ crate = "violette" => element = 0
          /\ drv = [element |-> element, err |-> FALSE]
    /\ bufs = <<>>
    /\ tex = <<>>
    /\ prog = <<>>

NextDraw ==
    LET p == Handle(crate, "program", "-", "-", 0, 1, FALSE)
        v == Handle(crate, "vao", "-", "-", 0, 1, FALSE)
        buf == Handle(crate, "buffer", "ARRAY_BUFFER", "-", 0, 1, FALSE)
        eb == Handle(crate, "buffer", "ELEMENT_ARRAY_BUFFER", "-", 0, 3, FALSE)
        fbs == {Handle(crate, "framebuffer", "-", "-", 0, 1, FALSE), Backbuffer(crate)}
        Args(fb, a, e, sizes) == [fb |-> fb, a |-> a, e |-> e, sizes |-> sizes]
    IN  \/ \E fb \in fbs, a \in 0..MaxLen, raise \in 0..1 : \E e \in a..MaxLen :
              DrawStep("draw", Args(fb, a, e, <<>>),
                       draw(fb, p, v, bound, a, e, drv.err, raise, noUnbind),
                       raise > 0, drv.element)
        \/ \E fb \in fbs, a \in 0..MaxLen, raise \in 0..1 : \E e \in a..MaxLen :
              DrawStep("draw_elements", Args(fb, a, e, <<>>),
                       draw_elements(fb, p, v, bound, drv.element, MaxLen, a, e,
                                     drv.err, raise, noUnbind),
                       drv.element # 0 /\ raise > 0, drv.element)
        \/ \E size \in Strides, raise \in 0..2 :
              /\ crate = "violette"
              /\ DrawStep("with_vertex_buffer", Args(NoHandle, 0, 0, <<size>>),
                          with_vertex_buffer(v, buf, size, drv.err, raise, noUnbind),
                          raise > 0, drv.element)
        \/ \E sizes \in UNION {[1..k -> Strides] : k \in 1..MaxFields}, raise \in 0..1 :
              /\ crate = "violette-low"
              /\ DrawStep("with_vertex_buffer", Args(NoHandle, 0, 0, sizes),
                          BoundVao_with_vertex_buffer(v, buf, bound, sizes, drv.err,
                                                      raise, noUnbind),
                          raise > 0, drv.element)
        \/ \E size \in {1, 2}, raise \in 0..1 :
              LET r == with_element_buffer(v, eb, size, drv.element, drv.err, raise)
              IN  /\ crate = "violette"
                  /\ DrawStep("with_element_buffer", Args(NoHandle, 0, 0, <<size>>),
                              r, raise > 0, r.t)
        \/ \E width \in {-1, 1} :
              /\ crate = "violette"
              /\ DrawStep("viewport", Args(NoHandle, 0, 0, <<width>>),
                          viewport(0, 0, width, 1), width < 0, drv.element)
        \/ \E n \in 0..MaxLen, raise \in 0..1 :
              /\ crate = "violette-low"
              /\ DrawStep("bound_set", Args(NoHandle, 0, n, <<>>),
                          BoundBuffer_set(buf, bound, n, noUnbind), raise > 0,
                          drv.element)
        \/ \E mode \in {"none", "front", "back"}, raise \in 0..1 :
              /\ crate = "violette-low"
              /\ DrawStep("culling", Args(NoHandle, 0, 0, <<mode>>),
                          culling(mode, drv.err, raise), raise > 0, drv.element)

SpecDraw == InitDraw /\ [][NextDraw]_vars

\* C21: at the moment a draw or draw_elements call reaches the driver, the
\* given program, the framebuffer the draw was invoked on and the given
\* vertex array are all current.
C21_AllCurrentAtDraw ==
    last.op \in {"draw", "draw_elements"}
    => \A i \in DOMAIN issued :
          issued[i].fn \in {"DrawArrays", "DrawElements"}
          => LET b == Apply(crate, last.preb, SubSeq(issued, 1, i - 1))
             IN  /\ b["PROGRAM"] = 1
                 /\ b["FRAMEBUFFER"] = last.args.fb.id
                 /\ b["VERTEX_ARRAY"] = 1

C27_DrawRange ==
    (last.op \in {"draw", "draw_elements"} /\ last.result # "bail")
    => \E i \in DOMAIN issued :
          /\ issued[i].fn \in {"DrawArrays", "DrawElements"}
          /\ issued[i].count = last.args.e - last.args.a
          /\ issued[i].first = IF last.op = "draw" THEN last.args.a
                               ELSE last.args.a * last.element

\* C23: when a driver call issued by a fallible operation raises a driver
\* error, the operation returns a failure: it neither returns success nor
\* aborts.
C23_DriverErrorReturned ==
    (/\ last.op \in {"draw", "draw_elements", "with_vertex_buffer",
                     "with_element_buffer", "bound_set", "culling"}
     /\ last.raised)
    => last.result = "err"

\* C30: an operation returns a driver-error failure only if one of its own
\* driver calls raised the error.
C30_OwnErrorsOnly ==
    (/\ last.op \in {"draw", "draw_elements", "with_vertex_buffer",
                     "with_element_buffer"}
     /\ last.result = "err")
    => last.raised

-----------------------------------------------------------------------------
(* Texture units in violette-low *)

MaxUnit == 1        \* the highest texture unit used
TEXTURE0 == 33984   \* gl::TEXTURE0

\* Resource::make_binding for Texture; unit is the field of the handle
Texture_make_binding(h, unit) ==
    (IF unit.some THEN <<Call("ActiveTexture", "-", unit.id)>> ELSE <<>>)
        \o LowTexture_make_binding(h)

\* The driver's texture units after the calls: glActiveTexture selects the
\* unit, glBindTexture binds in the selected unit. d.units[u] is the texture
\* bound to TEXTURE_2D in unit u.
RECURSIVE UnitApply(_, _)
UnitApply(d, calls) ==
    IF calls = <<>> THEN d
    ELSE LET call == Head(calls)
             next == CASE call.fn = "ActiveTexture" ->
                             [d EXCEPT !.active = call.id - TEXTURE0]
                        [] call.fn = "BindTexture" ->
                             [d EXCEPT !.units[d.active] = call.id]
                        [] OTHER -> d
         IN  UnitApply(next, Tail(calls))

\* One operation on a texture: the calls it issues and the unit field after
UnitStep(op, h, calls, unit) ==
    /\ issued' = calls
    /\ drv' = UnitApply(drv, calls)
    /\ bound' = [bound EXCEPT ![Point(h)] = drv'.units[drv'.active]]
    /\ tex' = [tex EXCEPT ![h] = unit]
    /\ last' = [op |-> op, h |-> h, unit |-> tex[h], pre |-> drv]
    /\ UNCHANGED <<crate, noUnbind, stack, unwinding, alive, dropped>>
    /\ UNCHANGED <<sizeof, bufs, prog>>

\* Two 2D textures without a unit, in a context whose active unit is 0 and
\* whose units have no texture bound.
InitUnit ==
    /\ Start({"violette-low"}, BindingHandles)
    /\ sizeof = 1
    /\ drv = [active |-> 0, units |-> [u \in 0..MaxUnit |-> 0]]
    /\ bufs = <<>>
    /\ tex = [h \in {Handle("violette-low", "texture", "-", "D2", 1, i, FALSE) :
                        i \in 1..2} |-> None]
    /\ prog = <<>>

\* set_texture_unit, unset_texture_unit, and texture.bind() followed by the
\* drop of its guard (previous is read before make_binding runs).
NextUnit ==
    \/ \E h \in DOMAIN tex, off \in 0..MaxUnit :
          UnitStep("set_texture_unit", h, <<>>, Some(TEXTURE0 + off))
    \/ \E h \in DOMAIN tex : UnitStep("unset_texture_unit", h, <<>>, None)
    \/ \E h \in DOMAIN tex :
          UnitStep("bind_release", h,
                   Texture_make_binding(h, tex[h])
                      \o BindGuard_drop(Frame(h, Current(h, bound), 0), noUnbind),
                   tex[h])

SpecUnit == InitUnit /\ [][NextUnit]_vars

\* C29: with the unbinding feature on, binding a texture whose unit is set
\* and releasing the guard leaves the active texture unit and the texture
\* bound in every unit as they were before the bind.
C29_UnitsRestored ==
    (last.op = "bind_release" /\ last.unit.some /\ ~noUnbind)
    => /\ drv.active = last.pre.active
       /\ drv.units = last.pre.units

====
